---- MODULE Spec2Model ----
(***************************************************************************)
(* WhatsApp chat analyzer: preprocessor.preprocess (text -> record table)  *)
(* and the aggregation views of helper.py, driven in the order in which    *)
(* app.py calls them.                                                      *)
(*                                                                         *)
(* A text is a sequence of code points; each code point is written as a    *)
(* one-character string (an emoji code point as "U+1F600").                *)
(***************************************************************************)
EXTENDS Integers, Sequences, FiniteSets, TLC

VARIABLES raw, parts, records, df, selected_user, pc, stats, monthly, daily, week_map,
          month_map, heatmap, busy, stop_words, common, emojis

vars ==
    <<raw, parts, records, df, selected_user, pc, stats, monthly, daily, week_map,
      month_map, heatmap, busy, stop_words, common, emojis>>

(***************************************************************************)
(* Bounds and the export fragments uploads are built from.                 *)
(***************************************************************************)
MaxChunks == 2

ExampleExport ==
    <<"1","/","1","/","2","3",","," ","0","9",":","0","0"," ","-"," ","A","l",
      "i","c","e",":"," ","H","e","l","l","o"," ","t","h","e","r","e","\n",
      "1","/","1","/","2","3",","," ","0","9",":","0","5"," ","-"," ","B","o",
      "b",":"," ","<","M","e","d","i","a"," ","o","m","i","t","t","e","d",">",
      "\n","1","/","1","/","2","3",","," ","0","9",":","0","6"," ","-"," ",
      "A","l","i","c","e"," ","a","d","d","e","d"," ","B","o","b","\n">>

MixedLines ==
    <<"3","1","/","2","/","2","3",","," ","0","9",":","0","0"," ","-"," ","B",
      "o","b",":"," ","h","i","\n","3","/","1","/","2","3",","," ","1","0",
      ":","0","0"," ","-"," ","A","l","i","c","e",":"," ","y","o","\n","1",
      "/","1","3","/","2","3",","," ","1","0",":","0","0"," ","-"," ","A","l",
      "i","c","e",":"," ","y","o","\n","1","/","1","/","2","3",","," ","2",
      "5",":","0","0"," ","-"," ","B","o","b",":"," ","y","o","\n">>

EmptySenderLine ==
    <<"3","1","/","1","2","/","2","2",","," ","2","3",":","5","9"," ","-"," ",
      ":"," ","h","i","\n">>

OverallLinkLine ==
    <<"2","/","1","/","2","3",","," ","9",":","1","0"," ","-"," ","O","v","e",
      "r","a","l","l",":"," ","s","e","e"," ","h","t","t","p",":","/","/","x",
      ".","c","o"," ","n","o","w","\n">>

GarbageLine ==
    <<"n","o","t","-","a","-","d","a","t","e"," ","-"," ","g","a","r","b","a",
      "g","e","\n">>

ManyWordsLine ==
    <<"2","9","/","2","/","2","4",","," ","1","0",":","0","0"," ","-"," ","B",
      "o","b",":"," ","a"," ","b"," ","c"," ","d"," ","e"," ","f"," ","g"," ",
      "h"," ","i"," ","j"," ","k"," ","l"," ","m"," ","n"," ","o"," ","p"," ",
      "q"," ","r"," ","s"," ","t"," ","u"," ","v"," ","w"," ","t","\n">>

MultiLineMessage ==
    <<"2","/","1","/","2","3",","," ","1","0",":","3","0"," ","-"," ","A","l",
      "i","c","e",":"," ","o","k"," ","t","h","e"," ","T","e","a"," ","t","e",
      "a",":"," ","x","1"," ","U+1F600","\n","m","o","r","e"," ","t","e","a",
      "\n">>

OVERALL ==
    <<"O","v","e","r","a","l","l">>

GROUP_NOTIFICATION ==
    <<"g","r","o","u","p","_","n","o","t","i","f","i","c","a","t","i","o",
      "n">>

MEDIA_OMITTED ==
    <<"<","M","e","d","i","a"," ","o","m","i","t","t","e","d",">">>

HTTP ==
    <<"h","t","t","p">>

NOBODY ==
    <<"N","o","b","o","d","y">>

Chunks ==
    { ExampleExport, MixedLines, EmptySenderLine, OverallLinkLine,
      GarbageLine, ManyWordsLine, MultiLineMessage }

RECURSIVE Exports(_)
Exports(n) ==
    IF n = 0 THEN { <<>> }
    ELSE Exports(n - 1) \cup { t \o c : t \in Exports(n - 1), c \in Chunks }

StopWordSets ==
    { {}, { <<"t","h","e">> }, { <<"t","e","a">>, <<"a">>, <<"T","e","a">> } }

(***************************************************************************)
(* Text primitives (Python str methods and the re module).                 *)
(***************************************************************************)
DIGITS == <<"0","1","2","3","4","5","6","7","8","9">>

UPPERCASE ==
    <<"A","B","C","D","E","F","G","H","I","J","K","L","M",
      "N","O","P","Q","R","S","T","U","V","W","X","Y","Z">>

LOWERCASE ==
    <<"a","b","c","d","e","f","g","h","i","j","k","l","m",
      "n","o","p","q","r","s","t","u","v","w","x","y","z">>

WHITESPACE == { " ", "\n" }

Range(f) == { f[i] : i \in DOMAIN f }

IsDigitAt(s, i) == i >= 1 /\ i <= Len(s) /\ s[i] \in Range(DIGITS)

DigitValue(c) == (CHOOSE i \in 1..10 : DIGITS[i] = c) - 1

\* sub occurs in s starting at index i
HasAt(s, i, sub) ==
    /\ i >= 1
    /\ i + Len(sub) - 1 <= Len(s)
    /\ \A k \in 1..Len(sub) : s[i + k - 1] = sub[k]

\* str.find, 1-based; 0 when sub does not occur
Find(s, sub) ==
    LET hits == { i \in 1..(Len(s) + 1) : HasAt(s, i, sub) }
    IN  IF hits = {} THEN 0 ELSE CHOOSE i \in hits : \A j \in hits : i <= j

\* sub in s, and Series.str.contains for a pattern without metacharacters
Contains(s, sub) == Find(s, sub) # 0

\* str.strip(chars)
Strip(s, chars) ==
    LET keep == { i \in 1..Len(s) : s[i] \notin chars }
    IN  IF keep = {} THEN <<>>
        ELSE LET lo == CHOOSE i \in keep : \A j \in keep : i <= j
                 hi == CHOOSE i \in keep : \A j \in keep : i >= j
             IN  SubSeq(s, lo, hi)

\* str.lower
LowerChar(c) ==
    IF c \in Range(UPPERCASE)
    THEN LOWERCASE[CHOOSE i \in 1..26 : UPPERCASE[i] = c]
    ELSE c

Lower(s) == [i \in 1..Len(s) |-> LowerChar(s[i])]

\* str.isalpha
IsAlpha(s) ==
    /\ Len(s) > 0
    /\ \A i \in 1..Len(s) : s[i] \in Range(UPPERCASE) \cup Range(LOWERCASE)

\* The elements of a finite set of integers in ascending order
RECURSIVE Ascending(_)
Ascending(S) ==
    IF S = {} THEN <<>>
    ELSE LET m == CHOOSE x \in S : \A y \in S : x <= y
         IN  <<m>> \o Ascending(S \ {m})

\* str.split() with no argument: the maximal runs of non-whitespace
Words(s) ==
    LET IsWs(i) == i < 1 \/ i > Len(s) \/ s[i] \in WHITESPACE
        starts == Ascending({ i \in 1..Len(s) : ~IsWs(i) /\ IsWs(i - 1) })
        ends == Ascending({ i \in 1..Len(s) : ~IsWs(i) /\ IsWs(i + 1) })
    IN  [k \in 1..Len(starts) |-> SubSeq(s, starts[k], ends[k])]

(***************************************************************************)
(* preprocessor.preprocess                                                 *)
(***************************************************************************)
\* r'(\d{1,2}/\d{1,2}/\d{2}, \d{1,2}:\d{2} - )'
pattern ==
    << [kind |-> "d12"], [kind |-> "lit", str |-> <<"/">>],
       [kind |-> "d12"], [kind |-> "lit", str |-> <<"/">>],
       [kind |-> "d2"],  [kind |-> "lit", str |-> <<",", " ">>],
       [kind |-> "d12"], [kind |-> "lit", str |-> <<":">>],
       [kind |-> "d2"],  [kind |-> "lit", str |-> <<" ", "-", " ">>] >>

\* Backtracking match of pattern items k.. at index i: the index just past
\* the match, or 0 when there is none.  \d{1,2} is greedy.
RECURSIVE MatchFrom(_, _, _)
MatchFrom(s, i, k) ==
    IF k > Len(pattern) THEN i
    ELSE LET it == pattern[k] IN
         CASE it.kind = "lit" ->
                IF HasAt(s, i, it.str)
                THEN MatchFrom(s, i + Len(it.str), k + 1) ELSE 0
           [] it.kind = "d2" ->
                IF IsDigitAt(s, i) /\ IsDigitAt(s, i + 1)
                THEN MatchFrom(s, i + 2, k + 1) ELSE 0
           [] it.kind = "d12" ->
                LET two == IF IsDigitAt(s, i) /\ IsDigitAt(s, i + 1)
                           THEN MatchFrom(s, i + 2, k + 1) ELSE 0
                IN  IF two # 0 THEN two
                    ELSE IF IsDigitAt(s, i)
                         THEN MatchFrom(s, i + 1, k + 1) ELSE 0

\* re.split(pattern, s) with one capture group, from index last on: the
\* text before the leftmost match, the captured prefix, and the split of
\* the text after the match.
RECURSIVE ReSplit(_, _)
ReSplit(s, last) ==
    LET starts == { i \in last..Len(s) : MatchFrom(s, i, 1) # 0 } IN
    IF starts = {} THEN << SubSeq(s, last, Len(s)) >>
    ELSE LET i == CHOOSE x \in starts : \A y \in starts : x <= y
             e == MatchFrom(s, i, 1)
         IN  << SubSeq(s, last, i - 1), SubSeq(s, i, e - 1) >> \o ReSplit(s, e)

\* parts = re.split(pattern, raw_data)[1:]
Parts(raw_data) == Tail(ReSplit(raw_data, 1))

\* user, message = message_str.split(': ', 1) / 'group_notification'
SplitUser(message_str) ==
    LET p == Find(message_str, <<":", " ">>) IN
    IF p # 0
    THEN [user |-> SubSeq(message_str, 1, p - 1),
          message |-> SubSeq(message_str, p + 2, Len(message_str))]
    ELSE [user |-> GROUP_NOTIFICATION, message |-> message_str]

\* The loop over zip(parts[0::2], parts[1::2]): (date_str, user, message)
Records(split_parts) ==
    [ n \in 1..(Len(split_parts) \div 2) |->
        LET date_str == Strip(split_parts[2 * n - 1], {" ", "-"})
            message_str == Strip(split_parts[2 * n], {"\n"})
            um == SplitUser(message_str)
        IN  [date_str |-> date_str, user |-> um.user, message |-> um.message] ]

\* pandas NaT, the result of errors='coerce' on a string that does not parse
NaT == [isnat |-> TRUE, year |-> 0, month |-> 0, day |-> 0, hour |-> 0, minute |-> 0]

\* format='%d/%m/%y, %H:%M'
format == << "d", "/", "m", "/", "y", ",", " ", "H", ":", "M" >>

\* strptime's regular expression for a directive accepts a two-digit
\* number in [lo2, hi2], else a one-digit number in [lo1, 9]
Directive(d) ==
    CASE d = "d" -> [lo2 |-> 1, hi2 |-> 31, lo1 |-> 1]
      [] d = "m" -> [lo2 |-> 1, hi2 |-> 12, lo1 |-> 1]
      [] d = "y" -> [lo2 |-> 0, hi2 |-> 99, lo1 |-> 10]
      [] d = "H" -> [lo2 |-> 0, hi2 |-> 23, lo1 |-> 0]
      [] d = "M" -> [lo2 |-> 0, hi2 |-> 59, lo1 |-> 0]

NoFields == [ok |-> FALSE, d |-> 0, m |-> 0, y |-> 0, H |-> 0, M |-> 0]

RECURSIVE SkipWs(_, _)
SkipWs(s, i) == IF i <= Len(s) /\ s[i] \in WHITESPACE THEN SkipWs(s, i + 1) ELSE i

\* Match format items k.. at index i, the whole string must be consumed
RECURSIVE Strptime(_, _, _, _)
Strptime(s, i, k, acc) ==
    IF k > Len(format) THEN (IF i = Len(s) + 1 THEN acc ELSE NoFields)
    ELSE LET f == format[k] IN
         IF f \in {"d", "m", "y", "H", "M"}
         THEN LET r == Directive(f)
                  v2 == IF IsDigitAt(s, i) /\ IsDigitAt(s, i + 1)
                        THEN 10 * DigitValue(s[i]) + DigitValue(s[i + 1]) ELSE -1
                  v1 == IF IsDigitAt(s, i) THEN DigitValue(s[i]) ELSE -1
                  two == IF v2 >= r.lo2 /\ v2 <= r.hi2
                         THEN Strptime(s, i + 2, k + 1, [acc EXCEPT ![f] = v2])
                         ELSE NoFields
              IN  IF two.ok THEN two
                  ELSE IF v1 >= r.lo1
                       THEN Strptime(s, i + 1, k + 1, [acc EXCEPT ![f] = v1])
                       ELSE NoFields
         ELSE IF f = " "
              THEN (IF i <= Len(s) /\ s[i] \in WHITESPACE
                    THEN Strptime(s, SkipWs(s, i), k + 1, acc) ELSE NoFields)
              ELSE (IF i <= Len(s) /\ s[i] = f
                    THEN Strptime(s, i + 1, k + 1, acc) ELSE NoFields)

IsLeap(y) == (y % 4 = 0 /\ y % 100 # 0) \/ y % 400 = 0

DaysInMonth(y, m) ==
    IF m = 2 THEN (IF IsLeap(y) THEN 29 ELSE 28)
    ELSE IF m \in {4, 6, 9, 11} THEN 30 ELSE 31

\* %y: 69..99 -> 19xx, 00..68 -> 20xx
FullYear(yy) == IF yy >= 69 THEN 1900 + yy ELSE 2000 + yy

\* to_datetime without the check of the day against the month's length
to_datetime_any_day(date_str) ==
    LET p == Strptime(date_str, 1, 1, [NoFields EXCEPT !.ok = TRUE])
    IN  IF p.ok
        THEN [isnat |-> FALSE, year |-> FullYear(p.y), month |-> p.m,
              day |-> p.d, hour |-> p.H, minute |-> p.M]
        ELSE NaT

\* pd.to_datetime(..., format='%d/%m/%y, %H:%M', errors='coerce') on one value
to_datetime(date_str) ==
    LET p == Strptime(date_str, 1, 1, [NoFields EXCEPT !.ok = TRUE])
    IN  IF p.ok /\ p.d <= DaysInMonth(FullYear(p.y), p.m)
        THEN [isnat |-> FALSE, year |-> FullYear(p.y), month |-> p.m,
              day |-> p.d, hour |-> p.H, minute |-> p.M]
        ELSE NaT

\* df.dropna(subset=['message_date'], inplace=True)
dropna(frame) == SelectSeq(frame, LAMBDA r : ~r.message_date.isnat)

\* the index labels left as dropna leaves them
reset_index_skipped(frame) == frame

\* df.reset_index(drop=True, inplace=True)
reset_index(frame) == [n \in 1..Len(frame) |-> [frame[n] EXCEPT !.index = n - 1]]

MONTH_NAMES ==
    << "January", "February", "March", "April", "May", "June", "July",
       "August", "September", "October", "November", "December" >>

DAY_NAMES ==
    << "Monday", "Tuesday", "Wednesday", "Thursday", "Friday", "Saturday",
       "Sunday" >>

\* Days from 0001-01-01 (a Monday) to the given proleptic Gregorian date
DaysBefore(y, m, d) ==
    LET py == y - 1
        RECURSIVE MonthDays(_)
        MonthDays(k) == IF k = 0 THEN 0 ELSE DaysInMonth(y, k) + MonthDays(k - 1)
    IN  py * 365 + (py \div 4) - (py \div 100) + (py \div 400)
        + MonthDays(m - 1) + (d - 1)

\* Series.dt.day_name()
day_name(ts) == DAY_NAMES[(DaysBefore(ts.year, ts.month, ts.day) % 7) + 1]

\* Series.dt.month_name()
month_name(ts) == MONTH_NAMES[ts.month]

\* The derived columns year .. only_date
AddFeatures(r) ==
    [index |-> r.index, message_date |-> r.message_date, user |-> r.user,
     message |-> r.message,
     year |-> r.message_date.year,
     month |-> month_name(r.message_date),
     month_num |-> r.message_date.month,
     day |-> r.message_date.day,
     hour |-> r.message_date.hour,
     minute |-> r.message_date.minute,
     weekday |-> day_name(r.message_date),
     only_date |-> <<r.message_date.year, r.message_date.month, r.message_date.day>>]

\* pd.DataFrame(records, ...) with message_date converted by pd.to_datetime
DataFrame(rows) ==
    [n \in 1..Len(rows) |->
        [index |-> n - 1, message_date |-> to_datetime(rows[n].date_str),
         user |-> rows[n].user, message |-> rows[n].message]]

\* preprocess from the DataFrame construction on
Frame(rows) ==
    LET kept == reset_index(dropna(DataFrame(rows)))
    IN  [n \in 1..Len(kept) |-> AddFeatures(kept[n])]

preprocess(raw_data) == Frame(Records(Parts(raw_data)))

(***************************************************************************)
(* pandas / collections building blocks used by helper.py                  *)
(***************************************************************************)
RECURSIVE SumSeq(_)
SumSeq(s) == IF s = <<>> THEN 0 ELSE Head(s) + SumSeq(Tail(s))

RECURSIVE Flatten(_)
Flatten(ss) == IF ss = <<>> THEN <<>> ELSE Head(ss) \o Flatten(Tail(ss))

\* collections.Counter(items): one (key, count) row per distinct item, in
\* the order in which the items were first encountered
Counter(items) ==
    LET first == Ascending({ i \in 1..Len(items) : \A j \in 1..(i - 1) : items[j] # items[i] })
    IN  [n \in 1..Len(first) |->
            [key |-> items[first[n]],
             count |-> Cardinality({ j \in 1..Len(items) : items[j] = items[first[n]] })]]

\* Rows by descending count; rows with equal counts keep their order
\* (sorted(..., reverse=True) as used by Counter.most_common and
\* Series.value_counts)
SortByCountDesc(rows) ==
    LET pos(i) == 1 + Cardinality({ j \in 1..Len(rows) : rows[j].count > rows[i].count })
                    + Cardinality({ j \in 1..(i - 1) : rows[j].count = rows[i].count })
    IN  [p \in 1..Len(rows) |-> rows[CHOOSE i \in 1..Len(rows) : pos(i) = p]]

\* Series.value_counts()
value_counts(column) == SortByCountDesc(Counter(column))

Column(data, name) == [n \in 1..Len(data) |-> data[n][name]]

\* if selected_user != 'Overall': data = data[data['user'] == selected_user]
FilterUser(selected, data) ==
    IF selected # OVERALL
    THEN SelectSeq(data, LAMBDA r : r.user = selected)
    ELSE data

(***************************************************************************)
(* helper.fetch_stats                                                      *)
(***************************************************************************)
\* Top-level domains known to the URL extractor (a sample of its list)
TLDS == { <<".", "c", "o">>, <<".", "c", "o", "m">>, <<".", "i", "n">> }

\* len(extractor.find_urls(msg)): whitespace-delimited chunks holding a
\* known top-level domain
find_urls(msg) ==
    SelectSeq(Words(msg), LAMBDA w : \E tld \in TLDS : Contains(w, tld))

\* fetch_stats counting no words for media rows
fetch_stats_content_words(selected, data_frame) ==
    LET data == FilterUser(selected, data_frame)
        content == SelectSeq(data, LAMBDA r : r.message # MEDIA_OMITTED)
        num_messages == Len(data)
        words == SumSeq([n \in 1..Len(content) |-> Len(Words(content[n].message))])
        num_media_messages == Len(SelectSeq(data, LAMBDA r : r.message = MEDIA_OMITTED))
        num_links == SumSeq([n \in 1..Len(data) |-> Len(find_urls(data[n].message))])
    IN  <<num_messages, words, num_media_messages, num_links>>

fetch_stats(selected, data_frame) ==
    LET data == FilterUser(selected, data_frame)
        num_messages == Len(data)
        words == SumSeq([n \in 1..Len(data) |-> Len(Words(data[n].message))])
        num_media_messages == Len(SelectSeq(data, LAMBDA r : r.message = MEDIA_OMITTED))
        num_links == SumSeq([n \in 1..Len(data) |-> Len(find_urls(data[n].message))])
    IN  <<num_messages, words, num_media_messages, num_links>>

(***************************************************************************)
(* helper.most_busy_users                                                  *)
(***************************************************************************)
\* round(x, 2) of 100 * num / den in hundredths of a percent, half to even
RoundPercent(num, den) ==
    LET q == (num * 10000) \div den
        r == (num * 10000) % den
    IN  IF 2 * r > den \/ (2 * r = den /\ q % 2 = 1) THEN q + 1 ELSE q

\* value_counts without the drop
KeepSentinel(counts) == counts

\* .drop('group_notification', errors='ignore')
DropSentinel(counts) == SelectSeq(counts, LAMBDA r : r.key # GROUP_NOTIFICATION)

most_busy_users(data_frame) ==
    LET user_counts == DropSentinel(value_counts(Column(data_frame, "user")))
        total_msgs == SumSeq([n \in 1..Len(user_counts) |-> user_counts[n].count])
        percent_df == [n \in 1..Len(user_counts) |->
                         [user |-> user_counts[n].key,
                          percent |-> RoundPercent(user_counts[n].count, total_msgs)]]
    IN  [user_counts |-> user_counts, percent_df |-> percent_df]

(***************************************************************************)
(* helper.most_common_words                                                *)
(***************************************************************************)
TopWords == 20

\* temp: rows without the media placeholder and without 'http'
ContentRows(data) ==
    SelectSeq(SelectSeq(data, LAMBDA r : ~Contains(r.message, MEDIA_OMITTED)),
              LAMBDA r : ~Contains(r.message, HTTP))

\* the words appended for one message
KeptWords(msg, stops) ==
    SelectSeq(Words(Lower(msg)), LAMBDA w : IsAlpha(w) /\ w \notin stops)

\* Counter(words).most_common() without the limit
most_common_all(words, n) == SortByCountDesc(Counter(words))

\* Counter(words).most_common(n)
most_common(words, n) ==
    LET ranked == SortByCountDesc(Counter(words))
    IN  SubSeq(ranked, 1, IF Len(ranked) < n THEN Len(ranked) ELSE n)

most_common_words(selected, data_frame, stops) ==
    LET temp == ContentRows(FilterUser(selected, data_frame))
        words == Flatten([n \in 1..Len(temp) |-> KeptWords(temp[n].message, stops)])
        common_rows == most_common(words, TopWords)
    IN  [n \in 1..Len(common_rows) |->
            [word |-> common_rows[n].key, count |-> common_rows[n].count]]

(***************************************************************************)
(* helper.emoji_helper                                                     *)
(***************************************************************************)
\* emoji.EMOJI_DATA (the code points of it that occur in the exports)
EMOJI_DATA == { "U+1F600" }

emoji_helper(selected, data_frame) ==
    LET data == FilterUser(selected, data_frame)
        emojis_list == Flatten([n \in 1..Len(data) |->
                          SelectSeq(data[n].message, LAMBDA ch : ch \in EMOJI_DATA)])
        ranked == SortByCountDesc(Counter(emojis_list))
    IN  IF emojis_list = <<>> THEN <<>>
        ELSE [n \in 1..Len(ranked) |->
                [emoji |-> ranked[n].key, frequency |-> ranked[n].count]]

(***************************************************************************)
(* helper.monthly_timeline, daily_timeline, week/month_activity_map        *)
(***************************************************************************)
\* lexicographic order on tuples of integers of equal length
RECURSIVE TupleLess(_, _)
TupleLess(a, b) ==
    /\ a # <<>>
    /\ \/ Head(a) < Head(b)
       \/ Head(a) = Head(b) /\ TupleLess(Tail(a), Tail(b))

\* the distinct keys in ascending order (groupby sorts its keys)
RECURSIVE SortedKeys(_)
SortedKeys(K) ==
    IF K = {} THEN <<>>
    ELSE LET m == CHOOSE x \in K : \A y \in K \ {x} : TupleLess(x, y)
         IN  <<m>> \o SortedKeys(K \ {m})

monthly_timeline(selected, data_frame) ==
    LET data == FilterUser(selected, data_frame)
        keys == SortedKeys({ <<data[n].year, data[n].month_num>> : n \in 1..Len(data) })
    IN  [k \in 1..Len(keys) |->
            [year |-> keys[k][1], month_num |-> keys[k][2],
             month |-> MONTH_NAMES[keys[k][2]],
             message |-> Cardinality({ n \in 1..Len(data) :
                            <<data[n].year, data[n].month_num>> = keys[k] }),
             time |-> MONTH_NAMES[keys[k][2]] \o " " \o ToString(keys[k][1])]]

daily_timeline(selected, data_frame) ==
    LET data == FilterUser(selected, data_frame)
        keys == SortedKeys({ data[n].only_date : n \in 1..Len(data) })
    IN  [k \in 1..Len(keys) |->
            [only_date |-> keys[k],
             message |-> Cardinality({ n \in 1..Len(data) : data[n].only_date = keys[k] })]]

week_activity_map(selected, data_frame) ==
    value_counts(Column(FilterUser(selected, data_frame), "weekday"))

month_activity_map(selected, data_frame) ==
    value_counts(Column(FilterUser(selected, data_frame), "month"))

(***************************************************************************)
(* helper.activity_heatmap                                                 *)
(***************************************************************************)
\* str(n) for 0 <= n <= 99
IntStr(n) ==
    IF n < 10 THEN << DIGITS[n + 1] >>
    ELSE << DIGITS[(n \div 10) + 1], DIGITS[(n % 10) + 1] >>

\* f"{h}-{(h+1)%24}"
period(h) == IntStr(h) \o <<"-">> \o IntStr((h + 1) % 24)

\* ord() of the characters a period label is made of
Ord(c) == IF c = "-" THEN 45 ELSE 48 + DigitValue(c)

\* str.__lt__: code point by code point, a proper prefix is smaller
RECURSIVE StrLess(_, _)
StrLess(a, b) ==
    IF b = <<>> THEN FALSE
    ELSE IF a = <<>> THEN TRUE
    ELSE IF Ord(Head(a)) # Ord(Head(b)) THEN Ord(Head(a)) < Ord(Head(b))
    ELSE StrLess(Tail(a), Tail(b))

\* the distinct labels in ascending string order
RECURSIVE SortedLabels(_)
SortedLabels(L) ==
    IF L = {} THEN <<>>
    ELSE LET m == CHOOSE x \in L : \A y \in L \ {x} : StrLess(x, y)
         IN  <<m>> \o SortedLabels(L \ {m})

NaN == [isnan |-> TRUE, value |-> 0]

Num(n) == [isnan |-> FALSE, value |-> n]

\* data.pivot_table(index='weekday', columns='period', values='message',
\* aggfunc='count'): one row per weekday and one column per period that
\* occur in data; a combination without a message is NaN
pivot_table(data) ==
    LET rows == { data[n].weekday : n \in 1..Len(data) }
        cols == { period(data[n].hour) : n \in 1..Len(data) }
    IN  [index |-> rows,
         columns |-> SortedLabels(cols),
         cell |-> [w \in rows, c \in cols |->
                     LET k == Cardinality({ n \in 1..Len(data) :
                                  data[n].weekday = w /\ period(data[n].hour) = c })
                     IN  IF k = 0 THEN NaN ELSE Num(k)]]

\* .fillna(0)
fillna(table, v) ==
    [table EXCEPT !.cell = [w \in table.index, c \in Range(table.columns) |->
                               IF table.cell[w, c].isnan THEN Num(v)
                               ELSE table.cell[w, c]]]

\* .reindex(weekdays): rows in the given order, a label that is not in the
\* table gets a row of NaN
reindex(table, labels) ==
    [index |-> labels,
     columns |-> table.columns,
     cell |-> [w \in Range(labels), c \in Range(table.columns) |->
                 IF w \in table.index THEN table.cell[w, c] ELSE NaN]]

activity_heatmap(selected, data_frame) ==
    LET data == FilterUser(selected, data_frame)
        weekdays == DAY_NAMES
    IN  reindex(fillna(pivot_table(data), 0), weekdays)

(***************************************************************************)
(* app.py: upload, user selection, and the "Show Analysis" sequence        *)
(***************************************************************************)
Steps ==
    << "fetch_stats", "monthly_timeline", "daily_timeline", "week_activity_map",
       "month_activity_map", "activity_heatmap", "most_busy_users",
       "most_common_words", "emoji_helper", "done" >>

StepIndex(step) == CHOOSE i \in 1..Len(Steps) : Steps[i] = step

\* the view named step has been computed for the current df and selection
Ran(step) ==
    /\ pc \in Range(Steps)
    /\ StepIndex(pc) > StepIndex(step)
    /\ step = "most_busy_users" => selected_user = OVERALL

NoHeatmap == [index |-> <<>>, columns |-> <<>>, cell |-> <<>>]

NoBusy == [user_counts |-> <<>>, percent_df |-> <<>>]

ClearViews ==
    /\ stats' = <<>>
    /\ monthly' = <<>>
    /\ daily' = <<>>
    /\ week_map' = <<>>
    /\ month_map' = <<>>
    /\ heatmap' = NoHeatmap
    /\ busy' = NoBusy
    /\ stop_words' = {}
    /\ common' = <<>>
    /\ emojis' = <<>>

Init ==
    /\ raw = <<>>
    /\ parts = <<>>
    /\ records = <<>>
    /\ df = <<>>
    /\ selected_user = OVERALL
    /\ pc = "upload"
    /\ stats = <<>>
    /\ monthly = <<>>
    /\ daily = <<>>
    /\ week_map = <<>>
    /\ month_map = <<>>
    /\ heatmap = NoHeatmap
    /\ busy = NoBusy
    /\ stop_words = {}
    /\ common = <<>>
    /\ emojis = <<>>

\* a file is uploaded: df = preprocessor.preprocess(data)
Upload ==
    /\ pc = "upload"
    /\ \E data \in Exports(MaxChunks) :
          /\ raw' = data
          /\ parts' = Parts(data)
          /\ records' = Records(parts')
          /\ df' = Frame(records')
    /\ selected_user' = OVERALL
    /\ pc' = "select"
    /\ ClearViews

\* the users a view may be asked for: "Overall", every sender of the
\* table (the sentinel included) and a name that matches no record
Selectable == { OVERALL, NOBODY } \cup { df[n].user : n \in 1..Len(df) }

\* the selectbox is set and "Show Analysis" is clicked
ShowAnalysis ==
    /\ pc \in {"select", "done"}
    /\ \E u \in Selectable : selected_user' = u
    /\ pc' = "fetch_stats"
    /\ ClearViews
    /\ UNCHANGED <<raw, parts, records, df>>

FetchStats ==
    /\ pc = "fetch_stats"
    /\ stats' = fetch_stats(selected_user, df)
    /\ pc' = "monthly_timeline"
    /\ UNCHANGED <<raw, parts, records, df, selected_user, monthly, daily, week_map, month_map,
                   heatmap, busy, stop_words, common, emojis>>

MonthlyTimeline ==
    /\ pc = "monthly_timeline"
    /\ monthly' = monthly_timeline(selected_user, df)
    /\ pc' = "daily_timeline"
    /\ UNCHANGED <<raw, parts, records, df, selected_user, stats, daily, week_map, month_map,
                   heatmap, busy, stop_words, common, emojis>>

DailyTimeline ==
    /\ pc = "daily_timeline"
    /\ daily' = daily_timeline(selected_user, df)
    /\ pc' = "week_activity_map"
    /\ UNCHANGED <<raw, parts, records, df, selected_user, stats, monthly, week_map, month_map,
                   heatmap, busy, stop_words, common, emojis>>

WeekActivityMap ==
    /\ pc = "week_activity_map"
    /\ week_map' = week_activity_map(selected_user, df)
    /\ pc' = "month_activity_map"
    /\ UNCHANGED <<raw, parts, records, df, selected_user, stats, monthly, daily, month_map,
                   heatmap, busy, stop_words, common, emojis>>

MonthActivityMap ==
    /\ pc = "month_activity_map"
    /\ month_map' = month_activity_map(selected_user, df)
    /\ pc' = "activity_heatmap"
    /\ UNCHANGED <<raw, parts, records, df, selected_user, stats, monthly, daily, week_map,
                   heatmap, busy, stop_words, common, emojis>>

\* most_busy_users is only shown for selected_user == 'Overall'
ActivityHeatmap ==
    /\ pc = "activity_heatmap"
    /\ heatmap' = activity_heatmap(selected_user, df)
    /\ pc' = IF selected_user = OVERALL THEN "most_busy_users" ELSE "most_common_words"
    /\ UNCHANGED <<raw, parts, records, df, selected_user, stats, monthly, daily, week_map,
                   month_map, busy, stop_words, common, emojis>>

MostBusyUsers ==
    /\ pc = "most_busy_users"
    /\ busy' = most_busy_users(df)
    /\ pc' = "most_common_words"
    /\ UNCHANGED <<raw, parts, records, df, selected_user, stats, monthly, daily, week_map,
                   month_map, heatmap, stop_words, common, emojis>>

\* stop_hinglish.txt is read on every call
MostCommonWords ==
    /\ pc = "most_common_words"
    /\ \E stops \in StopWordSets :
          /\ stop_words' = stops
          /\ common' = most_common_words(selected_user, df, stops)
    /\ pc' = "emoji_helper"
    /\ UNCHANGED <<raw, parts, records, df, selected_user, stats, monthly, daily, week_map,
                   month_map, heatmap, busy, emojis>>

EmojiHelper ==
    /\ pc = "emoji_helper"
    /\ emojis' = emoji_helper(selected_user, df)
    /\ pc' = "done"
    /\ UNCHANGED <<raw, parts, records, df, selected_user, stats, monthly, daily, week_map,
                   month_map, heatmap, busy, stop_words, common>>

Next ==
    \/ Upload
    \/ ShowAnalysis
    \/ FetchStats
    \/ MonthlyTimeline
    \/ DailyTimeline
    \/ WeekActivityMap
    \/ MonthActivityMap
    \/ ActivityHeatmap
    \/ MostBusyUsers
    \/ MostCommonWords
    \/ EmojiHelper

Spec == Init /\ [][Next]_vars

(***************************************************************************)
(* Properties                                                              *)
(***************************************************************************)
RECURSIVE Number(_)
Number(ds) ==
    IF ds = <<>> THEN 0
    ELSE 10 * Number(SubSeq(ds, 1, Len(ds) - 1)) + DigitValue(ds[Len(ds)])

After(s, p, n) == SubSeq(s, p + n, Len(s))

\* the numbers of a "D/M/YY, H:MM" string, read off its separators
DateFields(date_str) ==
    LET s1 == Find(date_str, <<"/">>)
        r1 == After(date_str, s1, 1)
        s2 == Find(r1, <<"/">>)
        r2 == After(r1, s2, 1)
        s3 == Find(r2, <<",", " ">>)
        r3 == After(r2, s3, 2)
        s4 == Find(r3, <<":">>)
    IN  [day |-> Number(SubSeq(date_str, 1, s1 - 1)),
         month |-> Number(SubSeq(r1, 1, s2 - 1)),
         year |-> FullYear(Number(SubSeq(r2, 1, s3 - 1))),
         hour |-> Number(SubSeq(r3, 1, s4 - 1)),
         minute |-> Number(After(r3, s4, 1))]

\* the string names a calendar date and a time of day, day before month
ParsesDayFirst(date_str) ==
    LET f == DateFields(date_str) IN
    /\ f.month \in 1..12
    /\ f.day \in 1..DaysInMonth(f.year, f.month)
    /\ f.hour \in 0..23
    /\ f.minute \in 0..59

\* the DateFields of every (prefix, body) pair of records
FieldsOf == [n \in 1..Len(records) |-> DateFields(records[n].date_str)]

ValidFields(f) ==
    /\ f.month \in 1..12
    /\ f.day \in 1..DaysInMonth(f.year, f.month)
    /\ f.hour \in 0..23
    /\ f.minute \in 0..59

\* positions, among the (prefix, body) pairs of raw, of the pairs whose
\* date-time string parses
Kept == Ascending({ n \in 1..Len(records) : ParsesDayFirst(records[n].date_str) })

Dropped == { n \in 1..Len(records) : ~ParsesDayFirst(records[n].date_str) }

SameStamp(ts, f) ==
    /\ ~ts.isnat
    /\ ts.year = f.year /\ ts.month = f.month /\ ts.day = f.day
    /\ ts.hour = f.hour /\ ts.minute = f.minute

\* C1: every record returned by preprocess has a non-null timestamp; a pair
\* whose date-time string does not parse as day-first DD/MM/YY, HH:MM is
\* never in the output and no pair whose string parses is dropped.
C1_NonNullTimestamps ==
    pc # "upload" =>
        LET fields == FieldsOf
            valid == { k \in 1..Len(records) : ValidFields(fields[k]) }
        IN  /\ \A n \in 1..Len(df) : ~df[n].message_date.isnat
            /\ Len(df) = Cardinality(valid)
            /\ \A k \in valid :
                  \E n \in 1..Len(df) :
                     /\ df[n].user = records[k].user
                     /\ df[n].message = records[k].message
                     /\ SameStamp(df[n].message_date, fields[k])
            /\ \A n \in 1..Len(df) :
                  \E k \in valid : SameStamp(df[n].message_date, fields[k])

\* an export with a pair that parses and pairs that fail on the day, on
\* the month and on the hour has been preprocessed
C1_Witness ==
    /\ pc # "upload"
    /\ Len(df) > 0
    /\ LET fields == FieldsOf IN
       /\ \E n \in 1..Len(records) : fields[n].month = 13
       /\ \E n \in 1..Len(records) : fields[n].hour = 25
       /\ \E n \in 1..Len(records) : fields[n].day = 31 /\ fields[n].month = 2

\* the body of the pair at position k
BodyOf(k) == Strip(parts[2 * k], {"\n"})

\* C2: the sender of a record is never empty: with ": " in the body the
\* sender is the text before its first occurrence and text is everything
\* after; without it sender is 'group_notification' and text is the body.
C2_SenderNeverEmpty ==
    pc # "upload" =>
        LET kept == Kept IN
        Len(df) = Len(kept) =>
            \A n \in 1..Len(df) :
               LET body == BodyOf(kept[n]) IN
               /\ df[n].user # <<>>
               /\ IF Contains(body, <<":", " ">>)
                  THEN /\ body = df[n].user \o <<":", " ">> \o df[n].message
                       /\ ~Contains(df[n].user, <<":", " ">>)
                  ELSE /\ df[n].user = GROUP_NOTIFICATION
                       /\ df[n].message = body

\* C3: the records are the pairs with a parseable timestamp in their order
\* of appearance in the text, never re-sorted by timestamp, and their
\* indices are contiguous 0..n-1.
C3_OrderOfAppearance ==
    pc # "upload" =>
        LET kept == Kept IN
        /\ Len(df) = Len(kept)
        /\ \A n \in 1..Len(df) :
              /\ df[n].index = n - 1
              /\ df[n].user = records[kept[n]].user
              /\ df[n].message = records[kept[n]].message
              /\ SameStamp(df[n].message_date, DateFields(records[kept[n]].date_str))

Stamp(r) == <<r.year, r.month_num, r.day, r.hour, r.minute>>

\* a pair was dropped in front of a kept one, and a record with an earlier
\* timestamp stands after one with a later timestamp
C3_Witness ==
    /\ pc # "upload"
    /\ LET kept == Kept IN \E d \in Dropped : \E k \in 1..Len(kept) : d < kept[k]
    /\ \E i, j \in 1..Len(df) : i < j /\ TupleLess(Stamp(df[j]), Stamp(df[i]))

Senders == { df[n].user : n \in 1..Len(df) }

RECURSIVE SumOver(_, _)
SumOver(S, f) ==
    IF S = {} THEN 0
    ELSE LET x == CHOOSE y \in S : TRUE IN f[x] + SumOver(S \ {x}, f)

\* C4: the messageCounts of fetch_stats(s, table) over the distinct senders
\* s of the table add up to the messageCount of fetch_stats('Overall',
\* table), whatever the sender names are.
C4_SenderCountsAddUp ==
    pc # "upload" =>
        SumOver(Senders, [s \in Senders |-> fetch_stats(s, df)[1]])
            = fetch_stats(OVERALL, df)[1]

AllPeriods == [h \in 1..24 |-> period(h - 1)]

Filtered == FilterUser(selected_user, df)

CellCount(w, c) ==
    Cardinality({ n \in 1..Len(Filtered) :
                    Filtered[n].weekday = w /\ period(Filtered[n].hour) = c })

\* C5: activity_heatmap returns exactly the 7 rows Monday..Sunday and the
\* 24 columns "H-(H+1)%24" for H = 0..23 in that order, and a cell of a
\* (weekday, hour) combination without a message holds 0.
C5_HeatmapShape ==
    Ran("activity_heatmap") =>
        /\ heatmap.index = DAY_NAMES
        /\ heatmap.columns = AllPeriods
        /\ \A w \in Range(DAY_NAMES), c \in Range(AllPeriods) :
              CellCount(w, c) = 0 => heatmap.cell[w, c] = Num(0)

\* DataFrame.sum().sum(): the cells that are NaN are skipped
CellTotal(table) ==
    LET cells == Range(table.index) \X Range(table.columns)
    IN  SumOver(cells, [wc \in cells |->
                          IF table.cell[wc[1], wc[2]].isnan THEN 0
                          ELSE table.cell[wc[1], wc[2]].value])

\* C6: every cell of the grid is the number of filtered records with that
\* weekday and hour, and the cells add up to the messageCount of
\* fetch_stats for the same selection.
C6_HeatmapCounts ==
    Ran("activity_heatmap") =>
        /\ \A w \in Range(heatmap.index), c \in Range(heatmap.columns) :
              heatmap.cell[w, c] = Num(CellCount(w, c))
        /\ CellTotal(heatmap) = stats[1]

\* the lowercased whitespace-delimited tokens of the filtered records whose
\* text holds neither the media placeholder nor "http", in reading order
EligibleTokens ==
    LET rows == SelectSeq(Filtered, LAMBDA r :
                    ~Contains(r.message, MEDIA_OMITTED) /\ ~Contains(r.message, HTTP))
    IN  Flatten([n \in 1..Len(rows) |-> Words(Lower(rows[n].message))])

\* C7: most_common_words returns at most 20 (word, count) entries, none a
\* stopword or with a non-alphabetic character, counted only from records
\* without the media placeholder and without "http", in descending count
\* order with ties in first-encountered order.
C7_MostCommonWords ==
    Ran("most_common_words") =>
        LET tokens == EligibleTokens
            Occ(w) == Cardinality({ i \in 1..Len(tokens) : tokens[i] = w })
            First(w) == CHOOSE i \in 1..Len(tokens) :
                           tokens[i] = w /\ \A j \in 1..(i - 1) : tokens[j] # w
        IN  /\ Len(common) <= 20
            /\ \A n \in 1..Len(common) :
                  /\ common[n].word \notin stop_words
                  /\ \A i \in 1..Len(common[n].word) :
                        common[n].word[i] \in Range(LOWERCASE) \cup Range(UPPERCASE)
                  /\ common[n].count > 0
                  /\ common[n].count = Occ(common[n].word)
            /\ \A n \in 1..(Len(common) - 1) :
                  \/ common[n].count > common[n + 1].count
                  \/ /\ common[n].count = common[n + 1].count
                     /\ First(common[n].word) < First(common[n + 1].word)

\* more than 20 distinct words were eligible, a stopword and a "http"
\* record were left out, and both a tie and a strict descent occur
C7_Witness ==
    /\ Ran("most_common_words")
    /\ Len(common) = 20
    /\ \E n \in 1..Len(Filtered) : Contains(Filtered[n].message, HTTP)
    /\ LET tokens == EligibleTokens IN
       /\ \E i \in 1..Len(tokens) : tokens[i] \in stop_words
       /\ \E n \in 1..19 : common[n].count > common[n + 1].count
       /\ \E n \in 1..19 : common[n].count = common[n + 1].count

Abs(x) == IF x < 0 THEN -x ELSE x

\* C8: neither result of most_busy_users has a row for the sentinel sender;
\* every other sender of the table appears exactly once with its message
\* count, rows are in descending count order, and each percentage is the
\* sender's share of the non-sentinel total (to two decimals).
C8_MostBusyUsers ==
    Ran("most_busy_users") =>
        LET uc == busy.user_counts
            pd == busy.percent_df
            humans == Senders \ {GROUP_NOTIFICATION}
            cnt(u) == Cardinality({ n \in 1..Len(df) : df[n].user = u })
            total == Cardinality({ n \in 1..Len(df) : df[n].user # GROUP_NOTIFICATION })
        IN  /\ \A n \in 1..Len(uc) : uc[n].key # GROUP_NOTIFICATION
            /\ \A n \in 1..Len(pd) : pd[n].user # GROUP_NOTIFICATION
            /\ \A u \in humans :
                  /\ Cardinality({ n \in 1..Len(uc) : uc[n].key = u }) = 1
                  /\ \E n \in 1..Len(uc) : uc[n].key = u /\ uc[n].count = cnt(u)
            /\ Len(uc) = Cardinality(humans)
            /\ \A n \in 1..(Len(uc) - 1) : uc[n].count >= uc[n + 1].count
            /\ Len(pd) = Len(uc)
            /\ \A n \in 1..Len(pd) :
                  /\ pd[n].user = uc[n].key
                  /\ 2 * Abs(pd[n].percent * total - 10000 * uc[n].count) <= total

\* the table has sentinel rows and senders with different message counts
C8_Witness ==
    /\ Ran("most_busy_users")
    /\ GROUP_NOTIFICATION \in Senders
    /\ \E i, j \in 1..Len(busy.user_counts) :
          busy.user_counts[i].count > busy.user_counts[j].count
    /\ \E n \in 1..Len(busy.percent_df) : busy.percent_df[n].percent = 3333

ZeroGrid(table) ==
    /\ table.index = DAY_NAMES
    /\ table.columns = AllPeriods
    /\ \A w \in Range(DAY_NAMES), c \in Range(AllPeriods) : table.cell[w, c] = Num(0)

\* C9: an empty export or one without a timestamp prefix gives an empty
\* record sequence, and every view over an empty record sequence or over a
\* selection that matches no record returns its zero-valued or empty form
\* (zero counts, empty lists, an all-zero 7x24 grid).
C9_EmptyDegrades ==
    /\ (pc # "upload" /\ parts = <<>>) => df = <<>>
    /\ Filtered = <<>> =>
          /\ Ran("fetch_stats") => stats = <<0, 0, 0, 0>>
          /\ Ran("monthly_timeline") => monthly = <<>>
          /\ Ran("daily_timeline") => daily = <<>>
          /\ Ran("week_activity_map") => week_map = <<>>
          /\ Ran("month_activity_map") => month_map = <<>>
          /\ Ran("most_busy_users") =>
                busy.user_counts = <<>> /\ busy.percent_df = <<>>
          /\ Ran("most_common_words") => common = <<>>
          /\ Ran("emoji_helper") => emojis = <<>>
          /\ Ran("activity_heatmap") => ZeroGrid(heatmap)

ExampleAnalysed ==
    /\ raw = ExampleExport
    /\ selected_user = OVERALL
    /\ Ran("fetch_stats")

\* C10: for the three-line example export preprocess yields 3 records and
\* fetch_stats('Overall', records) is messageCount=3, wordCount=2,
\* mediaCount=1, linkCount=0.
C10_ExampleStats ==
    ExampleAnalysed => Len(df) = 3 /\ stats = <<3, 2, 1, 0>>

\* C10 (amended): for the three-line example export preprocess yields 3
\* records and fetch_stats('Overall', records) is messageCount=3,
\* wordCount=7 (2 + 2 + 3 whitespace-delimited tokens), mediaCount=1,
\* linkCount=0.
C10_ExampleStatsAmended ==
    ExampleAnalysed => Len(df) = 3 /\ stats = <<3, 7, 1, 0>>

C10_Witness == ExampleAnalysed
====
